---- MODULE Spec2Model ----
(***************************************************************************)
(* mandelbrot.png (src/src/main.rs): the orbit generator Z and its builder, *)
(* the plane sampler complex_matrix, the classifier is_stable, the filter   *)
(* get_members, and main with the rendering steps of plot_mandelbrot.       *)
(*                                                                          *)
(* Numbers.  BigInt is a sign and a magnitude of arbitrary size; f64 is     *)
(* IEEE-754 binary64 with round-to-nearest-even, infinities and NaN.  Both  *)
(* rest on naturals of arbitrary size, kept as little-endian sequences of   *)
(* limbs so that no intermediate value leaves the range of TLC's integers. *)
(* Every f64 operation below returns the correctly rounded                  *)
(* binary64 result of the exact operation.                                  *)
(***************************************************************************)
EXTENDS Integers, Sequences, FiniteSets, TLC

(***************************************************************************)
(* Naturals of arbitrary size: <<>> is 0, a[1] the least significant limb,  *)
(* the most significant limb is never 0.                                    *)
(***************************************************************************)
LimbBase == 2^15

LimbBits == CHOOSE k \in 1..30 : 2^k = LimbBase

RECURSIVE NatNorm(_)
NatNorm(a) ==
  IF a = <<>> THEN a
  ELSE IF a[Len(a)] = 0 THEN NatNorm(SubSeq(a, 1, Len(a) - 1))
  ELSE a

RECURSIVE NatFromInt(_)
NatFromInt(n) ==
  IF n = 0 THEN <<>> ELSE <<n % LimbBase>> \o NatFromInt(n \div LimbBase)

RECURSIVE NatToInt(_)
NatToInt(a) ==
  IF a = <<>> THEN 0 ELSE Head(a) + LimbBase * NatToInt(Tail(a))

RECURSIVE NatAddC(_, _, _)
NatAddC(a, b, carry) ==
  IF a = <<>> /\ b = <<>>
  THEN IF carry = 0 THEN <<>> ELSE <<carry>>
  ELSE LET x == IF a = <<>> THEN 0 ELSE Head(a)
           y == IF b = <<>> THEN 0 ELSE Head(b)
           s == x + y + carry
       IN  <<s % LimbBase>>
             \o NatAddC(IF a = <<>> THEN a ELSE Tail(a),
                        IF b = <<>> THEN b ELSE Tail(b), s \div LimbBase)

NatAdd(a, b) == NatAddC(a, b, 0)

\* a - b for a >= b, limb by limb with a borrow
RECURSIVE NatSubB(_, _, _)
NatSubB(a, b, borrow) ==
  IF a = <<>> THEN <<>>
  ELSE LET y == IF b = <<>> THEN 0 ELSE Head(b)
           d == Head(a) - y - borrow
       IN  <<d % LimbBase>>
             \o NatSubB(Tail(a), IF b = <<>> THEN b ELSE Tail(b),
                        IF d < 0 THEN 1 ELSE 0)

NatSub(a, b) == NatNorm(NatSubB(a, b, 0))

\* -1, 0, 1 as a < b, a = b, a > b
RECURSIVE NatCmpAt(_, _, _)
NatCmpAt(a, b, i) ==
  IF i = 0 THEN 0
  ELSE IF a[i] < b[i] THEN -1
  ELSE IF a[i] > b[i] THEN 1
  ELSE NatCmpAt(a, b, i - 1)

NatCmp(a, b) ==
  IF Len(a) < Len(b) THEN -1
  ELSE IF Len(a) > Len(b) THEN 1
  ELSE NatCmpAt(a, b, Len(a))

RECURSIVE NatMulSmallC(_, _, _)
NatMulSmallC(a, d, carry) ==
  IF a = <<>> THEN (IF carry = 0 THEN <<>> ELSE <<carry>>)
  ELSE LET p == Head(a) * d + carry
       IN  <<p % LimbBase>> \o NatMulSmallC(Tail(a), d, p \div LimbBase)

\* a * d for 0 <= d < LimbBase
NatMulSmall(a, d) == IF d = 0 THEN <<>> ELSE NatMulSmallC(a, d, 0)

RECURSIVE NatMulR(_, _)
NatMulR(a, b) ==
  IF b = <<>> THEN <<>>
  ELSE LET rest == NatMulR(a, Tail(b))
       IN  NatAdd(NatMulSmall(a, Head(b)),
                  IF rest = <<>> THEN rest ELSE <<0>> \o rest)

NatMul(a, b) == IF a = <<>> \/ b = <<>> THEN <<>> ELSE NatNorm(NatMulR(a, b))

\* quotient and remainder of a by d, 0 < d < LimbBase
RECURSIVE NatDivRem(_, _)
NatDivRem(a, d) ==
  IF a = <<>> THEN [q |-> <<>>, r |-> 0]
  ELSE LET hi  == NatDivRem(Tail(a), d)
           cur == hi.r * LimbBase + Head(a)
       IN  [q |-> <<cur \div d>> \o hi.q, r |-> cur % d]

NatDivSmall(a, d) == NatNorm(NatDivRem(a, d).q)

NatShl(a, k) ==
  IF a = <<>> THEN a
  ELSE [i \in 1..(k \div LimbBits) |-> 0] \o NatMulSmall(a, 2^(k % LimbBits))

NatShr(a, k) ==
  IF k \div LimbBits >= Len(a) THEN <<>>
  ELSE NatDivSmall(SubSeq(a, (k \div LimbBits) + 1, Len(a)), 2^(k % LimbBits))

RECURSIVE IntBitLen(_)
IntBitLen(n) == IF n = 0 THEN 0 ELSE 1 + IntBitLen(n \div 2)

NatBitLen(a) ==
  IF a = <<>> THEN 0 ELSE (Len(a) - 1) * LimbBits + IntBitLen(a[Len(a)])

NatIsOdd(a) == a # <<>> /\ a[1] % 2 = 1

NatPow2(k) == NatShl(<<1>>, k)

(***************************************************************************)
(* BigInt (num_bigint): a sign and a magnitude; zero is never negative.     *)
(***************************************************************************)
BigFromInt(n) ==
  [neg |-> n < 0, mag |-> NatFromInt(IF n < 0 THEN -n ELSE n)]

BigAdd(a, b) ==
  IF a.neg = b.neg THEN [neg |-> a.neg, mag |-> NatAdd(a.mag, b.mag)]
  ELSE LET cmp == NatCmp(a.mag, b.mag)
       IN  IF cmp = 0 THEN [neg |-> FALSE, mag |-> <<>>]
           ELSE IF cmp > 0 THEN [neg |-> a.neg, mag |-> NatSub(a.mag, b.mag)]
           ELSE [neg |-> b.neg, mag |-> NatSub(b.mag, a.mag)]

\* BigInt::pow(2)
BigSquare(a) == [neg |-> FALSE, mag |-> NatMul(a.mag, a.mag)]

(***************************************************************************)
(* f64: IEEE-754 binary64.  A finite value is (-1)^neg * m * 2^e with       *)
(* 2^52 <= m < 2^53 (normal), or m < 2^52 and e = F64MinExp (subnormal);   *)
(* zero is kept unsigned: -0.0 and 0.0 compare equal and no operation used  *)
(* here (no division by a float zero, no sign test) tells them apart.       *)
(***************************************************************************)
F64MantBits == 53

F64MinExp == -1074

F64MaxExp == 971

FZero == [k |-> "fin", neg |-> FALSE, m |-> <<>>, e |-> 0]

FNaN == [k |-> "nan", neg |-> FALSE, m |-> <<>>, e |-> 0]

FInf(neg) == [k |-> "inf", neg |-> neg, m |-> <<>>, e |-> 0]

FFin(neg, m, e) == [k |-> "fin", neg |-> neg, m |-> m, e |-> e]

FIsZero(a) == a.k = "fin" /\ a.m = <<>>

\* the binary64 nearest to (-1)^neg * M * 2^E, ties to the even mantissa;
\* overflow gives an infinity, underflow a subnormal or zero
FRound(neg, M, E) ==
  IF M = <<>> THEN FZero
  ELSE
    LET L  == NatBitLen(M)
        e0 == IF E + L - F64MantBits < F64MinExp
              THEN F64MinExp ELSE E + L - F64MantBits
    IN  IF e0 <= E
        THEN IF e0 > F64MaxExp THEN FInf(neg)
             ELSE FFin(neg, NatShl(M, E - e0), e0)
        ELSE
          LET sh     == e0 - E
              q1     == NatShr(M, sh - 1)
              sticky == NatShl(q1, sh - 1) # M
              q      == NatShr(q1, 1)
              up     == NatIsOdd(q1) /\ (sticky \/ NatIsOdd(q))
              r      == IF up THEN NatAdd(q, <<1>>) ELSE q
              carry  == NatBitLen(r) > F64MantBits
              m1     == IF carry THEN NatShr(r, 1) ELSE r
              e1     == IF carry THEN e0 + 1 ELSE e0
          IN  IF m1 = <<>> THEN FZero
              ELSE IF e1 > F64MaxExp THEN FInf(neg)
              ELSE FFin(neg, m1, e1)

\* usize as f64, i128 as f64
FFromInt(n) == FRound(n < 0, NatFromInt(IF n < 0 THEN -n ELSE n), 0)

\* the f64 literal n / 2^k
Dyadic(n, k) == FRound(n < 0, NatFromInt(IF n < 0 THEN -n ELSE n), -k)

FNeg(a) == IF a.k = "nan" \/ FIsZero(a) THEN a ELSE [a EXCEPT !.neg = ~a.neg]

FAdd(a, b) ==
  IF a.k = "nan" \/ b.k = "nan" THEN FNaN
  ELSE IF a.k = "inf"
       THEN IF b.k = "inf" /\ b.neg # a.neg THEN FNaN ELSE a
  ELSE IF b.k = "inf" THEN b
  ELSE IF a.m = <<>> THEN b
  ELSE IF b.m = <<>> THEN a
  \* the smaller operand is below an eighth of the larger one's last place
  ELSE IF a.e - b.e > F64MantBits + 2 THEN a
  ELSE IF b.e - a.e > F64MantBits + 2 THEN b
  ELSE
    LET e0  == IF a.e < b.e THEN a.e ELSE b.e
        A   == NatShl(a.m, a.e - e0)
        B   == NatShl(b.m, b.e - e0)
        cmp == NatCmp(A, B)
    IN  IF a.neg = b.neg THEN FRound(a.neg, NatAdd(A, B), e0)
        ELSE IF cmp = 0 THEN FZero
        ELSE IF cmp > 0 THEN FRound(a.neg, NatSub(A, B), e0)
        ELSE FRound(b.neg, NatSub(B, A), e0)

FSub(a, b) == FAdd(a, FNeg(b))

FMul(a, b) ==
  IF a.k = "nan" \/ b.k = "nan" THEN FNaN
  ELSE IF a.k = "inf" \/ b.k = "inf"
       THEN IF FIsZero(a) \/ FIsZero(b) THEN FNaN ELSE FInf(a.neg # b.neg)
  ELSE FRound(a.neg # b.neg, NatMul(a.m, b.m), a.e + b.e)

\* a / (d as f64) for an integer 0 < d < LimbBase: the quotient of the
\* mantissa widened by four limbs, its remainder folded into a sticky bit
FDivInt(a, d) ==
  IF a.k # "fin" THEN a
  ELSE
    LET dr == NatDivRem(NatShl(a.m, 4 * LimbBits), d)
        q  == NatNorm(dr.q)
    IN  FRound(a.neg,
               NatAdd(NatShl(q, 1), IF dr.r = 0 THEN <<>> ELSE <<1>>),
               a.e - 4 * LimbBits - 1)

\* f64 == f64
FEq(a, b) == a.k # "nan" /\ b.k # "nan" /\ a = b

\* f64 < f64
FLt(a, b) ==
  LET magLt(x, y) ==
        IF y.k = "inf" THEN x.k = "fin"
        ELSE IF x.k = "inf" THEN FALSE
        ELSE IF y.m = <<>> THEN FALSE
        ELSE IF x.m = <<>> THEN TRUE
        ELSE x.e < y.e \/ (x.e = y.e /\ NatCmp(x.m, y.m) < 0)
  IN  IF a.k = "nan" \/ b.k = "nan" THEN FALSE
      ELSE IF a.neg /\ ~b.neg THEN TRUE
      ELSE IF ~a.neg /\ b.neg THEN FALSE
      ELSE IF a.neg THEN magLt(b, a)
      ELSE magLt(a, b)

\* f64 as usize: NaN and negatives give 0, the fraction is cut, values past
\* usize::MAX give usize::MAX (64-bit target).  The result is a natural.
FToUsize(a) ==
  IF a.k = "nan" \/ a.neg THEN <<>>
  ELSE IF a.k = "inf" \/ NatBitLen(a.m) + a.e > 64
       THEN NatSub(NatPow2(64), <<1>>)
  ELSE IF a.e >= 0 THEN NatShl(a.m, a.e)
  ELSE NatShr(a.m, -a.e)

\* |a| < 2^p for a finite a
FAbsBelowPow2(a, p) == a.m = <<>> \/ NatBitLen(a.m) + a.e <= p

\* 4 * (A^2 + B^2) <= (4 + 2^-50 + 2^-104) * 2^(2 - 2*e0) for mantissas A, B
\* at the common exponent e0 <= -51
SumSqWithinTwo(A, B, e0) ==
  NatCmp(NatShl(NatAdd(NatMul(A, A), NatMul(B, B)), 2),
         NatAdd(NatPow2(4 - 2 * e0),
                NatAdd(NatPow2(-48 - 2 * e0), NatPow2(-102 - 2 * e0)))) <= 0

(***************************************************************************)
(* Complex<f64> (num_complex): a record of re and im.                       *)
(***************************************************************************)
Complex(re, im) == [re |-> re, im |-> im]

\* (a + bi)(c + di) = (ac - bd) + (ad + bc)i
CMul(a, b) ==
  Complex(FSub(FMul(a.re, b.re), FMul(a.im, b.im)),
          FAdd(FMul(a.re, b.im), FMul(a.im, b.re)))

CAdd(a, b) == Complex(FAdd(a.re, b.re), FAdd(a.im, b.im))

\* z.norm_sqr() <= 2.0: the squared norm held against the radius
NormSqrLe2(z) ==
  LET n2 == FAdd(FMul(z.re, z.re), FMul(z.im, z.im))
  IN  FLt(n2, Dyadic(2, 0)) \/ FEq(n2, Dyadic(2, 0))

\* z.norm() <= 2.0, where norm is hypot(re, im) correctly rounded: the
\* rounded root is at most 2.0 exactly when re^2 + im^2 is at most
\* (2 + 2^-52)^2 = 4 + 2^-50 + 2^-104 (the tie rounds to the even 2.0).
\* NaN and infinite norms compare false.  With x the larger part, in [1, 4),
\* a part y below 2^-59 cannot lift x^2, a multiple of 2^-104 other than the
\* threshold, over it.
NormLe2(z) ==
  IF z.re.k # "fin" \/ z.im.k # "fin" THEN FALSE
  ELSE IF ~FAbsBelowPow2(z.re, 2) \/ ~FAbsBelowPow2(z.im, 2) THEN FALSE
  ELSE IF FAbsBelowPow2(z.re, 0) /\ FAbsBelowPow2(z.im, 0) THEN TRUE
  ELSE
    LET swap == FAbsBelowPow2(z.re, 0)
        x    == IF swap THEN z.im ELSE z.re
        y    == IF swap THEN z.re ELSE z.im
    IN  IF y.m = <<>> \/ x.e - y.e > 60 THEN SumSqWithinTwo(x.m, <<>>, x.e)
        ELSE IF y.e > x.e
             THEN SumSqWithinTwo(x.m, NatShl(y.m, y.e - x.e), x.e)
        ELSE SumSqWithinTwo(NatShl(x.m, x.e - y.e), y.m, y.e)

(***************************************************************************)
(* Option<T>                                                                *)
(***************************************************************************)
None == [some |-> FALSE]

Some(v) == [some |-> TRUE, v |-> v]

(***************************************************************************)
(* State.  Three programs share the module: a client of the orbit generator *)
(* (SpecZ), one call of is_stable followed step by step (SpecStable), and   *)
(* main (Spec).  Each specification leaves the other programs' variables at *)
(* their initial values.                                                    *)
(***************************************************************************)
VARIABLES
  zpc,            \* generator client: "start", "builder", "limited", "built"
  builder,        \* ZBuilder {z, candidate, limit}
  gen,            \* Z {z, c, limit, count}
  rets,           \* history: what each call of Z::next returned, in order
  frame,          \* is_stable: {c, num_iterations, z, i, pc, ret}; history:
                  \* the point in quarter units (quarters) c was drawn from and
                  \* the passes through the loop body so far
  args,           \* main: the arguments of complex_matrix and get_members
  pc,             \* main: position
  complex_array,  \* Array2<Complex<f64>>: shape (rows, cols), row-major data
  it,             \* get_members: elements of c.iter() consumed so far
  members,        \* get_members: Vec<(f64, f64)>
  trace,          \* history: the steps main has started, in order
  raised,         \* history: the error a rendering step returned
  plot_ret,       \* what plot_mandelbrot returned: None until it returns
  result,         \* what main returned: None while it runs
  stdout          \* lines printed

zvars == <<zpc, builder, gen, rets>>

mvars == <<args, pc, complex_array, it, members, trace, raised, plot_ret,
           result, stdout>>

vars == <<zpc, builder, gen, rets, frame, args, pc, complex_array, it,
          members, trace, raised, plot_ret, result, stdout>>

(***************************************************************************)
(* Bounds of the generator client.                                          *)
(***************************************************************************)
MaxC == 2

MaxLimit == 3

MaxCalls == 6

(***************************************************************************)
(* ZBuilder and Z (main.rs 7-85).                                           *)
(***************************************************************************)
\* #[derive(Default)]: BigInt::default() is 0, Option::default() is None
ZBuilder_new == [z |-> BigFromInt(0), candidate |-> BigFromInt(0), limit |-> None]

ZBuilder_z(self, z) ==
  [z |-> BigFromInt(z), candidate |-> self.candidate, limit |-> self.limit]

ZBuilder_c(self, c) ==
  [z |-> self.z, candidate |-> BigFromInt(c), limit |-> self.limit]

ZBuilder_limit(self, limit) ==
  [z |-> self.z, candidate |-> self.candidate, limit |-> Some(limit)]

ZBuilder_build(self) ==
  [z |-> self.z, c |-> self.candidate, limit |-> self.limit, count |-> 0]

mandelbrot(c) == ZBuilder_c(ZBuilder_z(ZBuilder_new, 0), c)

julia(c, p) == ZBuilder_c(ZBuilder_z(ZBuilder_new, c), p)

CallMandelbrot ==
  /\ zpc = "start"
  /\ \E c \in -MaxC..MaxC : builder' = mandelbrot(c)
  /\ zpc' = "builder"
  /\ UNCHANGED <<gen, rets, frame>>
  /\ UNCHANGED mvars

CallJulia ==
  /\ zpc = "start"
  /\ \E c \in -MaxC..MaxC, p \in -MaxC..MaxC : builder' = julia(c, p)
  /\ zpc' = "builder"
  /\ UNCHANGED <<gen, rets, frame>>
  /\ UNCHANGED mvars

CallLimit ==
  /\ zpc = "builder"
  /\ \E limit \in 0..MaxLimit : builder' = ZBuilder_limit(builder, limit)
  /\ zpc' = "limited"
  /\ UNCHANGED <<gen, rets, frame>>
  /\ UNCHANGED mvars

CallBuild ==
  /\ zpc \in {"builder", "limited"}
  /\ gen' = ZBuilder_build(builder)
  /\ zpc' = "built"
  /\ UNCHANGED <<builder, rets, frame>>
  /\ UNCHANGED mvars

\* a variant of Z::next whose exhausted branch still counts the call
ZNextCounting ==
  /\ zpc = "built"
  /\ Len(rets) < MaxCalls
  /\ IF gen.limit.some /\ gen.count > gen.limit.v
     THEN /\ rets' = Append(rets, None)
          /\ gen' = [gen EXCEPT !.count = @ + 1]
     ELSE /\ gen' = [gen EXCEPT !.z = BigAdd(BigSquare(gen.z), gen.c),
                                !.count = @ + 1]
          /\ rets' = Append(rets, Some(gen.z))
  /\ UNCHANGED <<zpc, builder, frame>>
  /\ UNCHANGED mvars

\* Z::next (main.rs 17-30).  count is a u128: the MaxCalls calls of a run
\* stay far below its wrap.
ZNext ==
  /\ zpc = "built"
  /\ Len(rets) < MaxCalls
  /\ LET r == gen.z
     IN  IF gen.limit.some /\ gen.count > gen.limit.v
         THEN /\ rets' = Append(rets, None)
              /\ UNCHANGED gen
         ELSE /\ gen' = [gen EXCEPT !.z = BigAdd(BigSquare(gen.z), gen.c),
                                    !.count = @ + 1]
              /\ rets' = Append(rets, Some(r))
  /\ UNCHANGED <<zpc, builder, frame>>
  /\ UNCHANGED mvars

NextZ == CallMandelbrot \/ CallJulia \/ CallLimit \/ CallBuild \/ ZNext

(***************************************************************************)
(* is_stable (main.rs 113-119).                                             *)
(***************************************************************************)
CZero == Complex(FZero, FZero)

\* the loop of is_stable: num_iterations times z = z * z + c.  Each pass
\* binds its result w as a value before the next pass starts.
RECURSIVE Iterate(_, _, _)
Iterate(z, c, num_iterations) ==
  IF num_iterations = 0 THEN z
  ELSE CHOOSE r \in {Iterate(w, c, num_iterations - 1) :
                        w \in {CAdd(CMul(z, z), c)}} : TRUE

\* a classifier whose loop runs once whatever num_iterations is
is_stable_one_pass(c, num_iterations) ==
  NormLe2(Iterate(CZero, c, IF num_iterations = 0 THEN 0 ELSE 1))

is_stable(c, num_iterations) == NormLe2(Iterate(CZero, c, num_iterations))

\* Bounds of the call followed step by step: the points c are the multiples
\* of 1/4 with both parts in [-PointRange/4, PointRange/4].
PointRange == 10

MaxIter == 7

\* the f64 q/4
Quarter(q) == Dyadic(q, 2)

IdleFrame ==
  [c |-> CZero, num_iterations |-> 0, z |-> CZero, i |-> 0, pc |-> "idle",
   ret |-> FALSE, quarters |-> <<0, 0>>, passes |-> 0]

\* a loop body that leaves the loop as soon as the orbit is outside the disc
StableIterateEarlyExit ==
  /\ frame.pc = "loop"
  /\ frame.i < frame.num_iterations
  /\ frame' = [frame EXCEPT
                 !.z = CAdd(CMul(frame.z, frame.z), frame.c),
                 !.i = IF NormLe2(CAdd(CMul(frame.z, frame.z), frame.c))
                       THEN @ + 1 ELSE frame.num_iterations,
                 !.passes = @ + 1]
  /\ UNCHANGED zvars
  /\ UNCHANGED mvars

\* one pass of `for _ in 0..num_iterations { z = z * z + c; }`
StableIterate ==
  /\ frame.pc = "loop"
  /\ frame.i < frame.num_iterations
  /\ frame' = [frame EXCEPT !.z = CAdd(CMul(frame.z, frame.z), frame.c),
                            !.i = @ + 1, !.passes = @ + 1]
  /\ UNCHANGED zvars
  /\ UNCHANGED mvars

\* the range is exhausted: return z.norm() <= 2.0
StableReturn ==
  /\ frame.pc = "loop"
  /\ frame.i >= frame.num_iterations
  /\ frame' = [frame EXCEPT !.ret = NormLe2(frame.z), !.pc = "done"]
  /\ UNCHANGED zvars
  /\ UNCHANGED mvars

NextStable == StableIterate \/ StableReturn

(***************************************************************************)
(* complex_matrix (main.rs 87-111) over ndarray's linspace.                 *)
(***************************************************************************)
\* a linspace whose first element is one step past the start
linspace_skipping_start(a, b, n) ==
  LET step == IF n > 1 THEN FDivInt(FSub(b, a), n - 1) ELSE FZero
  IN  [i \in 1..n |-> FAdd(a, FMul(step, FFromInt(i)))]

\* ndarray::linspace(a, b, n).collect(): step = (b - a) / (n - 1) when n > 1,
\* otherwise 0; the element of index i is a + step * i, for i in 0..n
linspace(a, b, n) ==
  LET step == IF n > 1 THEN FDivInt(FSub(b, a), n - 1) ELSE FZero
  IN  [i \in 1..n |-> FAdd(a, FMul(step, FFromInt(i - 1)))]

\* ((max - min) * pixel_density as f64) as usize, rounded instead of cut
sample_count_rounded(min, max, pixel_density) ==
  NatToInt(FToUsize(FAdd(FMul(FSub(max, min), FFromInt(pixel_density)),
                         Dyadic(1, 1))))

\* ((max - min) * pixel_density as f64) as usize
sample_count(min, max, pixel_density) ==
  NatToInt(FToUsize(FMul(FSub(max, min), FFromInt(pixel_density))))

\* the array built by main.rs 102-108 from the two axes: shape
\* (im.len(), re.len()), entry [i, j] = Complex::new(re[j], im[i]); data is
\* the array in its standard (row-major) layout, the order of Array2::iter()
cartesian(re, im) ==
  [rows |-> Len(im), cols |-> Len(re),
   data |-> [k \in 1..(Len(im) * Len(re)) |->
               Complex(re[((k - 1) % Len(re)) + 1],
                       im[((k - 1) \div Len(re)) + 1])]]

\* an axis that keeps one sample when its count came out as 0
axis_never_empty(min, max, pixel_density) ==
  linspace(min, max,
           IF sample_count(min, max, pixel_density) = 0 THEN 1
           ELSE sample_count(min, max, pixel_density))

\* linspace(min, max, ((max - min) * pixel_density as f64) as usize)
axis(min, max, pixel_density) ==
  linspace(min, max, sample_count(min, max, pixel_density))

complex_matrix(x_min, x_max, y_min, y_max, pixel_density) ==
  cartesian(axis(x_min, x_max, pixel_density),
            axis(y_min, y_max, pixel_density))

(***************************************************************************)
(* Inputs of main.  main itself passes the region [-2, 0.5] x [-1.5, 1.5],  *)
(* 8000 samples per unit and 20 iterations (main.rs 157-158): 480 million   *)
(* points.  The model runs main on regions with corners on multiples of     *)
(* 1/4, given in quarter units, at small densities and iteration counts.    *)
(***************************************************************************)
MaxSpan == 4

MaxDensity == 3

MaxIterations == 2

\* lower left corners: main's, and the origin
Origins == {<<-8, -6>>, <<0, 0>>}

Input(x0, x1, y0, y1, d, n) ==
  [x_min |-> Dyadic(x0, 2), x_max |-> Dyadic(x1, 2),
   y_min |-> Dyadic(y0, 2), y_max |-> Dyadic(y1, 2),
   pixel_density |-> d, num_iterations |-> n, quarters |-> <<x0, x1, y0, y1>>]

GenericInputs ==
  {Input(o[1], o[1] + w, o[2], o[2] + h, d, n) :
     o \in Origins, w \in 1..MaxSpan, h \in 1..MaxSpan,
     d \in 0..MaxDensity, n \in 0..MaxIterations}

\* main's region at 2 samples per unit with main's 20 iterations
EndToEndInput == Input(-8, 2, -6, 6, 2, 20)

\* 30 real samples over [-2, 1.75]: the step 3.75 / 29 is not a binary64
FineInput == Input(-8, 7, 0, 1, 8, 1)

Inputs == GenericInputs \cup {EndToEndInput, FineInput}

ErrorKinds == {"BackendError", "SharingError", "LayoutError"}

Ok == [ok |-> TRUE]

Err(e) == [ok |-> FALSE, err |-> e]

EmptyArray == [rows |-> 0, cols |-> 0, data |-> <<>>]

(***************************************************************************)
(* main (main.rs 156-165), get_members (121-131), plot_mandelbrot (133-154)*)
(***************************************************************************)
\* let c = complex_matrix(...); then get_members starts with an empty Vec
MainSample ==
  /\ pc = "start"
  /\ complex_array' = complex_matrix(args.x_min, args.x_max, args.y_min,
                                     args.y_max, args.pixel_density)
  /\ members' = <<>>
  /\ it' = 0
  /\ trace' = Append(trace, "sample")
  /\ pc' = "get_members"
  /\ UNCHANGED <<args, raised, plot_ret, result, stdout>>
  /\ UNCHANGED <<frame>>
  /\ UNCHANGED zvars

\* a loop body that pushes (im, re)
GetMembersLoopSwapped ==
  /\ pc = "get_members"
  /\ it < Len(complex_array.data)
  /\ LET value == complex_array.data[it + 1]
     IN  members' = IF is_stable(value, args.num_iterations)
                    THEN Append(members, <<value.im, value.re>>)
                    ELSE members
  /\ it' = it + 1
  /\ UNCHANGED <<args, pc, complex_array, trace, raised, plot_ret, result, stdout>>
  /\ UNCHANGED <<frame>>
  /\ UNCHANGED zvars

\* one pass of `for &value in c.iter()`
GetMembersLoop ==
  /\ pc = "get_members"
  /\ it < Len(complex_array.data)
  /\ LET value == complex_array.data[it + 1]
     IN  members' = IF is_stable(value, args.num_iterations)
                    THEN Append(members, <<value.re, value.im>>)
                    ELSE members
  /\ it' = it + 1
  /\ UNCHANGED <<args, pc, complex_array, trace, raised, plot_ret, result, stdout>>
  /\ UNCHANGED <<frame>>
  /\ UNCHANGED zvars

\* the iterator is exhausted: get_members returns and main calls
\* plot_mandelbrot
GetMembersReturn ==
  /\ pc = "get_members"
  /\ it >= Len(complex_array.data)
  /\ trace' = Append(trace, "classify")
  /\ pc' = "fill"
  /\ UNCHANGED <<args, complex_array, it, members, raised, plot_ret, result, stdout>>
  /\ UNCHANGED <<frame>>
  /\ UNCHANGED zvars

\* a rendering call followed by `?`: on Ok the next statement runs, on Err
\* plot_mandelbrot returns the error, boxed
Render(here, next) ==
  /\ pc = here
  /\ trace' = Append(trace, here)
  /\ \/ /\ pc' = next
        /\ plot_ret' = IF next = "returned" THEN Some(Ok) ELSE plot_ret
        /\ UNCHANGED raised
     \/ \E e \in ErrorKinds :
          /\ raised' = Some(e)
          /\ plot_ret' = Some(Err(e))
          /\ pc' = "returned"
  /\ UNCHANGED <<args, complex_array, it, members, result, stdout>>
  /\ UNCHANGED <<frame>>
  /\ UNCHANGED zvars

\* a rendering call whose result is dropped instead of checked with `?`
RenderIgnoringError(here, next) ==
  /\ pc = here
  /\ trace' = Append(trace, here)
  /\ \/ /\ pc' = next
        /\ plot_ret' = IF next = "returned" THEN Some(Ok) ELSE plot_ret
        /\ UNCHANGED raised
     \/ \E e \in ErrorKinds :
          /\ raised' = Some(e)
          /\ plot_ret' = IF next = "returned" THEN Some(Ok) ELSE plot_ret
          /\ pc' = next
  /\ UNCHANGED <<args, complex_array, it, members, result, stdout>>
  /\ UNCHANGED <<frame>>
  /\ UNCHANGED zvars

\* root.fill(&WHITE)?
PlotFill == Render("fill", "build")

\* ChartBuilder::on(&root)...build_cartesian_2d(-2.0..0.5, -1.5..1.5)?
PlotBuildChart == Render("build", "mesh")

PlotDrawMeshUnchecked == RenderIgnoringError("mesh", "series")

\* chart.configure_mesh().disable_mesh().draw()?
PlotDrawMesh == Render("mesh", "series")

\* chart.draw_series(members.into_iter().map(...))?
PlotDrawSeries == Render("series", "present")

\* root.present()?; Ok(())
PlotPresent == Render("present", "returned")

\* plot_mandelbrot(members)?: an Err is returned from main as it is
MainPropagate ==
  /\ pc = "returned"
  /\ ~plot_ret.v.ok
  /\ result' = plot_ret
  /\ pc' = "exit"
  /\ UNCHANGED <<args, complex_array, it, members, trace, raised, plot_ret, stdout>>
  /\ UNCHANGED <<frame>>
  /\ UNCHANGED zvars

\* println!("Plot saved to mandelbrot.png"); Ok(())
MainReport ==
  /\ pc = "returned"
  /\ plot_ret.v.ok
  /\ stdout' = Append(stdout, "Plot saved to mandelbrot.png")
  /\ trace' = Append(trace, "report")
  /\ result' = Some(Ok)
  /\ pc' = "exit"
  /\ UNCHANGED <<args, complex_array, it, members, raised, plot_ret>>
  /\ UNCHANGED <<frame>>
  /\ UNCHANGED zvars

\* the process status of `fn main() -> Result<(), Box<dyn Error>>`:
\* 0 for Ok, 1 for Err
ExitStatus(r) == IF r.ok THEN 0 ELSE 1

NextMain ==
  \/ MainSample
  \/ GetMembersLoop
  \/ GetMembersReturn
  \/ PlotFill
  \/ PlotBuildChart
  \/ PlotDrawMesh
  \/ PlotDrawSeries
  \/ PlotPresent
  \/ MainPropagate
  \/ MainReport

(***************************************************************************)
(* Specifications.                                                          *)
(***************************************************************************)
IdleZ ==
  /\ zpc = "start"
  /\ builder = ZBuilder_new
  /\ gen = ZBuilder_build(ZBuilder_new)
  /\ rets = <<>>

IdleMain ==
  /\ args = Input(0, 1, 0, 1, 0, 0)
  /\ pc = "idle"
  /\ complex_array = EmptyArray
  /\ it = 0
  /\ members = <<>>
  /\ trace = <<>>
  /\ raised = None
  /\ plot_ret = None
  /\ result = None
  /\ stdout = <<>>

InitZ == IdleZ /\ frame = IdleFrame /\ IdleMain

InitStable ==
  /\ IdleZ
  /\ IdleMain
  /\ \E a \in -PointRange..PointRange, b \in -PointRange..PointRange,
        n \in 0..MaxIter :
       frame = [c |-> Complex(Quarter(a), Quarter(b)), num_iterations |-> n,
                z |-> CZero, i |-> 0, pc |-> "loop", ret |-> FALSE,
                quarters |-> <<a, b>>, passes |-> 0]

Init ==
  /\ IdleZ
  /\ frame = IdleFrame
  /\ args \in Inputs
  /\ pc = "start"
  /\ complex_array = EmptyArray
  /\ it = 0
  /\ members = <<>>
  /\ trace = <<>>
  /\ raised = None
  /\ plot_ret = None
  /\ result = None
  /\ stdout = <<>>

Next == NextMain

SpecZ == InitZ /\ [][NextZ]_vars

SpecStable == InitStable /\ [][NextStable]_vars

Spec == Init /\ [][Next]_vars

(***************************************************************************)
(* The orbit generator: claims C9 and C10, under SpecZ.                     *)
(***************************************************************************)
\* the number of terms the calls so far have yielded
RECURSIVE Yielded(_)
Yielded(rs) ==
  IF rs = <<>> THEN 0
  ELSE (IF Head(rs).some THEN 1 ELSE 0) + Yielded(Tail(rs))

\* a BigInt of at most 15 bits as an integer
BigToInt(a) == IF a.neg THEN -NatToInt(a.mag) ELSE NatToInt(a.mag)

\* C9: a generator built with limit(L) yields at most L terms before next
\* returns None, and a generator built without a cap never returns None.
C9_AtMostLimitTerms ==
  zpc = "built" =>
    /\ gen.limit.some => Yielded(rets) <= gen.limit.v
    /\ ~gen.limit.some => \A i \in 1..Len(rets) : rets[i].some

\* C9, what the code does: a generator capped at L yields L + 1 terms, the
\* calls numbered 0..L, before None
C9_YieldsLimitPlusOne ==
  zpc = "built" /\ gen.limit.some =>
    /\ Yielded(rets) <= gen.limit.v + 1
    /\ \A i \in 1..Len(rets) : rets[i].some <=> i <= gen.limit.v + 1

\* C9: the cap 0 and a term yielded all the same
C9_TermPastTheCap ==
  zpc = "built" /\ gen.limit = Some(0) /\ Yielded(rets) = 1

\* C10: a call of next that follows a None returns None and leaves z, c,
\* limit and count as they were; a call that returns a term returns the z
\* it found, replaces z by z*z + c, adds exactly 1 to count and leaves c
\* and limit alone; a call that returns None changes nothing.
C10_NextFrame ==
  [][Len(rets') = Len(rets) + 1 =>
       LET r == rets'[Len(rets')]
       IN  /\ (rets # <<>> /\ ~rets[Len(rets)].some) => (~r.some /\ gen' = gen)
           /\ ~r.some => gen' = gen
           /\ r.some =>
                /\ r.v = gen.z
                /\ gen'.z = BigAdd(BigSquare(gen.z), gen.c)
                /\ NatBitLen(gen.z.mag) <= LimbBits =>
                     BigToInt(gen.z) * BigToInt(gen.z) + BigToInt(gen.c)
                       = (IF gen'.z.neg THEN -1 ELSE 1)
                           * (IF gen'.z.mag = <<>> THEN 0
                              ELSE gen'.z.mag[1]
                                   + (IF Len(gen'.z.mag) > 1
                                      THEN LimbBase * gen'.z.mag[2] ELSE 0))
                /\ gen'.count = gen.count + 1
                /\ gen'.c = gen.c
                /\ gen'.limit = gen.limit]_vars

\* C10: terms, then None twice in a row
C10_NoneTwice ==
  /\ Len(rets) >= 4
  /\ rets[1].some /\ rets[2].some
  /\ ~rets[Len(rets) - 1].some /\ ~rets[Len(rets)].some
  /\ NatBitLen(gen.z.mag) > LimbBits

(***************************************************************************)
(* is_stable: claims C5 and C6, under SpecStable.                           *)
(***************************************************************************)
\* |c|^2 <= 4 for c = (a + bi)/4, in integers: a^2 + b^2 <= 64
WithinTwoAfterOne(a, b) == a * a + b * b <= 64

\* |c*c + c|^2 <= 4 for c = (a + bi)/4: c*c + c is
\* ((a^2 - b^2 + 4a) + (2ab + 4b)i)/16
WithinTwoAfterTwo(a, b) ==
  (a * a - b * b + 4 * a) * (a * a - b * b + 4 * a)
    + (2 * a * b + 4 * b) * (2 * a * b + 4 * b) <= 1024

\* C5: is_stable(c, n) starts from z = 0, runs z <- z*z + c exactly n times
\* with no early exit, and returns whether the final |z| <= 2.0; the bound
\* is inclusive: c = -2 is stable for every n >= 1 (its orbit stays at 2).
C5_FixedPassesInclusiveBound ==
  /\ frame.pc = "loop" => frame.passes = frame.i /\ frame.i <= frame.num_iterations
  /\ frame.pc = "done" =>
       /\ frame.passes = frame.num_iterations
       /\ frame.z = Iterate(CZero, frame.c, frame.num_iterations)
       /\ frame.ret = NormLe2(frame.z)
       /\ frame.num_iterations = 0 => frame.ret
       /\ frame.num_iterations = 1 =>
            (frame.ret <=> WithinTwoAfterOne(frame.quarters[1], frame.quarters[2]))
       /\ frame.num_iterations = 2 =>
            (frame.ret <=> WithinTwoAfterTwo(frame.quarters[1], frame.quarters[2]))
       /\ (frame.quarters = <<-8, 0>> /\ frame.num_iterations >= 1) =>
            /\ frame.ret
            /\ frame.z.im = FZero
            /\ frame.z.re = Dyadic(IF frame.num_iterations = 1 THEN -2 ELSE 2, 0)
       /\ (frame.quarters = <<8, 8>> /\ frame.num_iterations >= 1) => ~frame.ret
       /\ frame.quarters = <<0, 0>> => frame.ret

\* C5: c = -2 after three or more passes, reported stable with |z| = 2
C5_BoundaryPointStable ==
  /\ frame.pc = "done"
  /\ frame.quarters = <<-8, 0>>
  /\ frame.num_iterations >= 3
  /\ frame.passes = frame.num_iterations
  /\ frame.ret

\* z.norm() > 2.0: false when the norm is NaN, true when a part is infinite
NormGt2(z) ==
  IF z.re.k = "inf" \/ z.im.k = "inf" THEN TRUE
  ELSE IF z.re.k = "nan" \/ z.im.k = "nan" THEN FALSE
  ELSE ~NormLe2(z)

\* a classifier that stops at the first pass after which |z| > 2 and reports
\* unstable, and otherwise answers as is_stable does
RECURSIVE EarlyExitStable(_, _, _)
EarlyExitStable(z, c, n) ==
  IF n = 0 THEN NormLe2(z)
  ELSE CHOOSE r \in {IF NormGt2(w) THEN FALSE ELSE EarlyExitStable(w, c, n - 1) :
                       w \in {CAdd(CMul(z, z), c)}} : TRUE

\* C6: escaped points stay escaped: if is_stable(c, m) is false for some
\* m <= n then is_stable(c, n) is false; and the classifier that leaves at
\* the first |z| > 2 returns what is_stable returns.
C6_EscapedStayEscaped ==
  frame.pc = "done" =>
    /\ \A m \in 0..frame.num_iterations :
         ~is_stable(frame.c, m) => ~frame.ret
    /\ frame.ret = EarlyExitStable(CZero, frame.c, frame.num_iterations)

\* C6: a point inside the disc after one pass, outside after two, and
\* classified after four or more
C6_EscapedEarlier ==
  /\ frame.pc = "done"
  /\ frame.num_iterations >= 4
  /\ is_stable(frame.c, 1)
  /\ ~is_stable(frame.c, 2)
  /\ ~frame.ret

(***************************************************************************)
(* complex_matrix, get_members and main: claims C1-C4, C7, C8, under Spec.  *)
(***************************************************************************)
\* complex_matrix has returned
Sampled == pc \notin {"idle", "start"}

\* get_members has returned
Classified == pc \notin {"idle", "start", "get_members"}

\* complex_array[[i, j]], i and j counted from 1
At(i, j) == complex_array.data[(i - 1) * complex_array.cols + j]

\* (x_max - x_min) * pixel_density and (y_max - y_min) * pixel_density, in
\* quarters
XProduct == (args.quarters[2] - args.quarters[1]) * args.pixel_density

YProduct == (args.quarters[4] - args.quarters[3]) * args.pixel_density

HasPair(ms, re, im) ==
  \E i \in 1..Len(ms) : FEq(ms[i][1], re) /\ FEq(ms[i][2], im)

\* C1, as stated: on [-2, 0.5] x [-1.5, 1.5] at density 2 (5 real by 6
\* imaginary samples) with 20 iterations the list returned by get_members
\* contains (0.0, 0.0) and does not contain (0.5, 1.5).
C1_OriginInMembers ==
  (args = EndToEndInput /\ pc = "fill") =>
    /\ complex_array.cols = 5 /\ complex_array.rows = 6
    /\ HasPair(members, FZero, FZero)
    /\ ~HasPair(members, Dyadic(1, 1), Dyadic(3, 1))

\* C1, amended: the grid is 5 by 6; 0.0 is neither a real nor an imaginary
\* sample, so the list does not contain (0.0, 0.0); the corner (0.5, 1.5) is
\* a grid point and is not in the list; the list holds the four points of
\* the real sample -0.125 that lie in the rows next to the real axis, among
\* them (-0.125, y) with 0.25 < y < 0.375.
C1_EndToEnd ==
  (args = EndToEndInput /\ pc = "fill") =>
    /\ complex_array.cols = 5 /\ complex_array.rows = 6
    /\ \A k \in 1..Len(complex_array.data) :
         /\ ~FEq(complex_array.data[k].re, FZero)
         /\ ~FEq(complex_array.data[k].im, FZero)
    /\ ~HasPair(members, FZero, FZero)
    /\ At(6, 5) = Complex(Dyadic(1, 1), Dyadic(3, 1))
    /\ ~HasPair(members, Dyadic(1, 1), Dyadic(3, 1))
    /\ Len(members) = 4
    /\ \A i \in 1..Len(members) : FEq(members[i][1], Dyadic(-1, 3))
    /\ \E i \in 1..Len(members) :
         FLt(Dyadic(1, 2), members[i][2]) /\ FLt(members[i][2], Dyadic(3, 3))

\* C1: the end-to-end run has classified its 30 points
C1_EndToEndClassified ==
  /\ args = EndToEndInput
  /\ pc = "fill"
  /\ it = 30
  /\ members # <<>>

\* C2, as stated: the counts are the products rounded to the nearest
\* integer, a fraction of one half or more going up.
C2_RoundedCounts ==
  Sampled =>
    /\ complex_array.cols = (XProduct + 2) \div 4
    /\ complex_array.rows = (YProduct + 2) \div 4

\* C2, amended: the counts are the products cut to their integer part.
C2_TruncatedCounts ==
  Sampled =>
    /\ complex_array.cols = XProduct \div 4
    /\ complex_array.rows = YProduct \div 4
    /\ Len(complex_array.data) = complex_array.rows * complex_array.cols

\* C2: a product with a fraction of one half or more, sampled
C2_FractionCut ==
  /\ Sampled
  /\ XProduct % 4 >= 2
  /\ XProduct >= 4
  /\ complex_array.rows >= 1

\* C3, as stated: in a non-empty grid the first and last column hold x_min
\* and x_max and the first and last row hold y_min and y_max, whatever the
\* sample counts.
C3_BothBoundsPresent ==
  (Sampled /\ complex_array.data # <<>>) =>
    /\ \A i \in 1..complex_array.rows :
         /\ FEq(At(i, 1).re, args.x_min)
         /\ FEq(At(i, complex_array.cols).re, args.x_max)
    /\ \A j \in 1..complex_array.cols :
         /\ FEq(At(1, j).im, args.y_min)
         /\ FEq(At(complex_array.rows, j).im, args.y_max)

\* C3, amended: in a non-empty grid the first column holds x_min and the
\* first row holds y_min; an axis with one sample holds its lower bound
\* only; and with 30 samples over [-2, 1.75] the last column misses x_max.
C3_LowerBoundsPresent ==
  (Sampled /\ complex_array.data # <<>>) =>
    /\ \A i \in 1..complex_array.rows : FEq(At(i, 1).re, args.x_min)
    /\ \A j \in 1..complex_array.cols : FEq(At(1, j).im, args.y_min)
    /\ complex_array.cols = 1 =>
         ~FEq(At(1, complex_array.cols).re, args.x_max)
    /\ complex_array.rows = 1 =>
         ~FEq(At(complex_array.rows, 1).im, args.y_max)
    /\ args = FineInput =>
         /\ complex_array.cols = 30
         /\ ~FEq(At(1, 30).re, args.x_max)
         /\ FLt(args.x_max, At(1, 30).re)

\* C3: a grid with one column and several rows
C3_SingleColumn ==
  /\ Sampled
  /\ complex_array.cols = 1
  /\ complex_array.rows >= 2
  /\ FEq(At(2, 1).re, args.x_min)

\* C4: when the density is 0 or an axis gets 0 samples, the grid is empty
\* (no rows or no columns, no data), get_members passes over nothing and
\* returns the empty list, for every iteration count.
C4_EmptyGridEmptyMembers ==
  (Sampled /\ (args.pixel_density = 0 \/ XProduct < 4 \/ YProduct < 4)) =>
    /\ complex_array.rows = 0 \/ complex_array.cols = 0
    /\ complex_array.data = <<>>
    /\ it = 0
    /\ members = <<>>
    /\ pc = "get_members" => ENABLED GetMembersReturn

\* C4: a positive density that leaves the real axis without a sample, the
\* imaginary axis with some, and get_members returned
C4_AxisWithoutSample ==
  /\ Classified
  /\ args.pixel_density > 0
  /\ args.num_iterations > 0
  /\ complex_array.cols = 0
  /\ complex_array.rows > 0
  /\ members = <<>>

\* the (re, im) pairs of a sequence of complex numbers
Pairs(zs) == [k \in 1..Len(zs) |-> <<zs[k].re, zs[k].im>>]

\* the elements of the array classified stable, in the array's order
StableElements ==
  SelectSeq(complex_array.data,
            LAMBDA value : is_stable(value, args.num_iterations))

\* C7: the list get_members returns is the subsequence of the row-major
\* traversal (rows by increasing imaginary part, each row by increasing real
\* part) made of the pairs of the stable elements: nothing else, nothing
\* missing, order kept, never longer than the grid.
C7_MembersAreStableSubsequence ==
  /\ pc = "get_members" => Len(members) <= it /\ it <= Len(complex_array.data)
  /\ pc = "fill" =>
       /\ members = Pairs(StableElements)
       /\ Len(members) <= complex_array.rows * complex_array.cols
       /\ \A k \in 1..Len(members) :
            \E e \in 1..Len(complex_array.data) :
               /\ members[k][1] = complex_array.data[e].re
               /\ members[k][2] = complex_array.data[e].im
       /\ \A i \in 1..complex_array.rows, j \in 1..complex_array.cols :
            /\ j > 1 => /\ FLt(At(i, j - 1).re, At(i, j).re)
                        /\ At(i, j - 1).im = At(i, j).im
            /\ i > 1 => /\ FLt(At(i - 1, j).im, At(i, j).im)
                        /\ At(i - 1, j).re = At(i, j).re

\* C7: some but not all elements of a grid of several rows and columns are
\* in the list
C7_ProperSubsequence ==
  /\ pc = "fill"
  /\ complex_array.rows >= 2 /\ complex_array.cols >= 2
  /\ Len(members) >= 2
  /\ Len(members) < Len(complex_array.data)
  /\ members[1][2] # members[Len(members)][2]

MainOrder ==
  <<"sample", "classify", "fill", "build", "mesh", "series", "present", "report">>

\* C8: main samples, classifies, renders and reports in that order; the
\* line is printed at most once and only after plot_mandelbrot returned Ok;
\* a rendering step that fails is the last step to run, its error is what
\* main returns, the status is not 0 and nothing is printed.
C8_MainOrder ==
  /\ Len(trace) <= Len(MainOrder)
  /\ trace = SubSeq(MainOrder, 1, Len(trace))
  /\ Len(stdout) <= 1
  /\ stdout # <<>> => (plot_ret = Some(Ok) /\ trace = MainOrder /\ ~raised.some)
  /\ raised.some =>
       /\ pc \in {"returned", "exit"}
       /\ plot_ret = Some(Err(raised.v))
       /\ trace[Len(trace)] \in {"fill", "build", "mesh", "series", "present"}
       /\ stdout = <<>>
  /\ plot_ret.some => (plot_ret.v.ok <=> ~raised.some)
  /\ result.some =>
       /\ pc = "exit"
       /\ result = plot_ret
       /\ result.v.ok => (ExitStatus(result.v) = 0 /\ Len(stdout) = 1)
       /\ ~result.v.ok =>
            /\ result.v = Err(raised.v)
            /\ ExitStatus(result.v) # 0
            /\ stdout = <<>>

\* C8: main has returned the error of the mesh step
C8_MeshFailed ==
  /\ pc = "exit"
  /\ result.some /\ ~result.v.ok
  /\ trace = <<"sample", "classify", "fill", "build", "mesh">>
  /\ result.v.err = "LayoutError"

====
